---- MODULE Spec2Model ----
(***************************************************************************)
(* Multi-tenant access control of the school-management backend:           *)
(* token service (app/core/security.py), authenticator (app/api/v1/auth.py,*)
(* app/models/user.py), entitlement gate (app/models/tenant.py) and the    *)
(* dependency pipeline of protected routes (app/core/security.py).         *)
(*                                                                         *)
(* Time is counted in clock ticks, TicksPerSecond ticks to the second: a   *)
(* datetime is a tick count, a JWT "exp" claim is a whole number of        *)
(* seconds.  A nullable column is a set with at most one element, except   *)
(* string columns, where the string None stands for NULL.                  *)
(***************************************************************************)
EXTENDS Integers, Sequences, FiniteSets, TLC

VARIABLES now, ticks, users, tenants, held, resp, prev, workers, students

vars == <<now, ticks, users, tenants, held, resp, prev, workers, students>>

None == "None"

(***************************************************************************)
(* Bounds of the model.                                                    *)
(***************************************************************************)
TicksPerSecond == 2
MaxTicks == 3
MaxFailed == 6

(***************************************************************************)
(* Program constants.                                                      *)
(***************************************************************************)
ACCESS_TOKEN_EXPIRE_MINUTES == 30
REFRESH_TOKEN_EXPIRE_DAYS == 7
SECRET_KEY == "your-secret-key-change-in-production"
LOCK_THRESHOLD == 5
LOCK_MINUTES == 30

Minutes(n) == n * 60 * TicksPerSecond
Days(n) == n * 24 * 60 * 60 * TicksPerSecond

UserRole == {"super_admin", "admin", "teacher", "student", "parent", "staff"}
UserStatus == {"active", "inactive", "suspended", "pending"}
SubscriptionPlan == {"basic", "professional", "enterprise"}
TenantStatus == {"active", "suspended", "cancelled", "trial"}

(***************************************************************************)
(* Token service.  A compact JWT is its claims and an HMAC over them; the  *)
(* HMAC is modelled as the pair of key and signed claims, wf tells whether *)
(* the string has the three-segment base64/JSON shape.                     *)
(***************************************************************************)
Sign(claims, key) == <<key, claims>>

Get(claims, k) == IF k \in DOMAIN claims THEN claims[k] ELSE None

\* calendar.timegm(dt.utctimetuple()): a datetime as whole seconds
timegm(t) == t \div TicksPerSecond

jwt_encode(claims, key) == [wf |-> TRUE, claims |-> claims, sig |-> Sign(claims, key)]

create_access_token_SubSecond(data, t) ==
    jwt_encode([sub |-> data.sub, role |-> data.role, tenant_id |-> data.tenant_id,
                exp |-> t + Minutes(ACCESS_TOKEN_EXPIRE_MINUTES)], SECRET_KEY)

create_access_token(data, t) ==
    jwt_encode([sub |-> data.sub, role |-> data.role, tenant_id |-> data.tenant_id,
                exp |-> timegm(t + Minutes(ACCESS_TOKEN_EXPIRE_MINUTES))], SECRET_KEY)

create_refresh_token(data, t) ==
    jwt_encode([sub |-> data.sub,
                exp |-> timegm(t + Days(REFRESH_TOKEN_EXPIRE_DAYS)),
                type |-> "refresh"], SECRET_KEY)

Expired_AtExpiry(exp, t) == exp <= timegm(t)

\* jose.jwt.decode: the signature, then the exp claim (expired when exp < now)
Expired(exp, t) == exp < timegm(t)

verify_token_NoSignature(token, t) ==
    IF ~token.wf THEN {}
    ELSE IF "exp" \in DOMAIN token.claims /\ Expired(token.claims.exp, t) THEN {}
    ELSE {token.claims}

\* SecurityUtils.verify_token: the claims as a set, empty for None
verify_token(token, t) ==
    IF ~token.wf THEN {}
    ELSE IF token.sig # Sign(token.claims, SECRET_KEY) THEN {}
    ELSE IF "exp" \in DOMAIN token.claims /\ Expired(token.claims.exp, t) THEN {}
    ELSE {token.claims}

(***************************************************************************)
(* Credential store rows (app/models/user.py).                             *)
(***************************************************************************)
get_password_hash(password) == <<"bcrypt", password>>

verify_password(plain, hashed) == get_password_hash(plain) = hashed

is_active_OrPending(u) == u.status \in {"active", "pending"}

is_active(u) == u.status = "active"

is_locked(u, t) ==
    IF u.account_locked_until = {} THEN FALSE
    ELSE \E until \in u.account_locked_until : t < until

can_login(u, t) == is_active(u) /\ ~is_locked(u, t)

increment_failed_login_Late(u, t) ==
    LET n == u.failed_login_attempts + 1
    IN  [u EXCEPT !.failed_login_attempts = n,
                  !.account_locked_until =
                      IF n > LOCK_THRESHOLD THEN {t + Minutes(LOCK_MINUTES)} ELSE @]

increment_failed_login_FreshAfterLock(u, t) ==
    LET n == IF u.account_locked_until # {} /\ ~is_locked(u, t) THEN 1
             ELSE u.failed_login_attempts + 1
    IN  [u EXCEPT !.failed_login_attempts = n,
                  !.account_locked_until =
                      IF n >= LOCK_THRESHOLD THEN {t + Minutes(LOCK_MINUTES)} ELSE @]

increment_failed_login_NoRenew(u, t) ==
    LET n == u.failed_login_attempts + 1
    IN  [u EXCEPT !.failed_login_attempts = n,
                  !.account_locked_until =
                      IF n >= LOCK_THRESHOLD /\ @ = {} THEN {t + Minutes(LOCK_MINUTES)}
                      ELSE @]

increment_failed_login(u, t) ==
    LET n == u.failed_login_attempts + 1
    IN  [u EXCEPT !.failed_login_attempts = n,
                  !.account_locked_until =
                      IF n >= LOCK_THRESHOLD THEN {t + Minutes(LOCK_MINUTES)} ELSE @]

reset_failed_login_KeepLock(u) == [u EXCEPT !.failed_login_attempts = 0]

reset_failed_login(u) ==
    [u EXCEPT !.failed_login_attempts = 0, !.account_locked_until = {}]

update_last_login(u, t) == [u EXCEPT !.last_login = {t}]

(***************************************************************************)
(* Tenant registry rows (app/models/tenant.py).                            *)
(***************************************************************************)
is_trial_expired_OnEndDate(tn, t) ==
    IF tn.trial_end_date = {} THEN FALSE
    ELSE \E d \in tn.trial_end_date : t >= d

is_trial_expired(tn, t) ==
    IF tn.trial_end_date = {} THEN FALSE
    ELSE \E d \in tn.trial_end_date : t > d

is_subscription_expired(tn, t) ==
    IF tn.subscription_end_date = {} THEN FALSE
    ELSE \E d \in tn.subscription_end_date : t > d

can_access_system_NoActiveFlag(tn, t) ==
    IF tn.subscription_status = "cancelled" THEN FALSE
    ELSE IF tn.subscription_status = "trial" THEN ~is_trial_expired(tn, t)
    ELSE IF tn.subscription_status = "active" THEN ~is_subscription_expired(tn, t)
    ELSE FALSE

can_access_system(tn, t) ==
    IF ~tn.is_active THEN FALSE
    ELSE IF tn.subscription_status = "cancelled" THEN FALSE
    ELSE IF tn.subscription_status = "trial" THEN ~is_trial_expired(tn, t)
    ELSE IF tn.subscription_status = "active" THEN ~is_subscription_expired(tn, t)
    ELSE FALSE

\* the limits dictionary of Tenant.get_feature_limit
limits ==
    [basic |-> [students |-> 100, teachers |-> 20, storage_gb |-> 10,
                api_calls_per_day |-> 1000, notifications_per_month |-> 1000],
     professional |-> [students |-> 500, teachers |-> 50, storage_gb |-> 50,
                       api_calls_per_day |-> 5000, notifications_per_month |-> 5000],
     enterprise |-> [students |-> -1, teachers |-> -1, storage_gb |-> 500,
                     api_calls_per_day |-> 50000, notifications_per_month |-> 50000]]

get_feature_limit(tn, feature_name) ==
    IF tn.subscription_plan \notin DOMAIN limits THEN 0
    ELSE IF feature_name \notin DOMAIN limits[tn.subscription_plan] THEN 0
    ELSE limits[tn.subscription_plan][feature_name]

can_use_feature_UpToLimit(tn, feature_name, current_usage) ==
    LET limit == get_feature_limit(tn, feature_name)
    IN  IF limit = -1 THEN TRUE ELSE current_usage <= limit

can_use_feature(tn, feature_name, current_usage) ==
    LET limit == get_feature_limit(tn, feature_name)
    IN  IF limit = -1 THEN TRUE ELSE current_usage < limit

(***************************************************************************)
(* The data the model runs on.                                             *)
(***************************************************************************)
UserIds == {"u1", "u2"}
TenantIds == {"t1"}
Emails == {"admin@t1", "root@platform", "nobody@nowhere"}
Passwords == {"pw1", "pw2"}
Workers == {"w1", "w2"}
Routes == {"list_students", "create_student", "advanced"}
ClockSteps == {1, TicksPerSecond, Minutes(ACCESS_TOKEN_EXPIRE_MINUTES) - TicksPerSecond}
EndDates == {{}, {TicksPerSecond}}
StudentIds == {"s1", "s2"}
StudentUpdates == {[current_grade |-> "grade_2"], [status |-> "graduated"]}
RegisterIds == {"u3"}
VerificationTokens == {"vt1", "vt2"}
UserUpdates == {[phone |-> "555-0100"], [id |-> "u1"], [nickname |-> "kim"]}
KeepClockSteps ==
    {Minutes(ACCESS_TOKEN_EXPIRE_MINUTES) + TicksPerSecond, Days(REFRESH_TOKEN_EXPIRE_DAYS)}
RefreshClockSteps == {TicksPerSecond, Days(REFRESH_TOKEN_EXPIRE_DAYS) - TicksPerSecond}

FeatureNames ==
    {"students", "teachers", "storage_gb", "api_calls_per_day",
     "notifications_per_month", "classrooms"}

\* usage counts at, just below and just above every limit of the table
Usages ==
    {0} \cup UNION {{l - 1, l, l + 1} \cap Nat :
                        l \in {limits[p][f] : p \in DOMAIN limits,
                                              f \in DOMAIN limits.basic}}

UserProfile(id, u) ==
    [id |-> id, email |-> u.email, role |-> u.role, tenant_id |-> u.tenant_id]

LoginResponse(id, u, t) ==
    [access_token |-> create_access_token(
                          [sub |-> id, role |-> u.role, tenant_id |-> u.tenant_id], t),
     refresh_token |-> create_refresh_token([sub |-> id], t),
     token_type |-> "bearer",
     user |-> UserProfile(id, u)]

NewUser(email, password, role, tenant_id) ==
    [email |-> email, hashed_password |-> get_password_hash(password),
     role |-> role, status |-> "active", tenant_id |-> tenant_id,
     failed_login_attempts |-> 0, account_locked_until |-> {}, last_login |-> {},
     phone |-> None, is_email_verified |-> TRUE, email_verification_token |-> None]

\* User(...) as register and AuthService.create_user build it
PendingUser(email, password, role, tenant_id) ==
    [NewUser(email, password, role, tenant_id)
        EXCEPT !.status = "pending", !.is_email_verified = FALSE]

ProvisionedUsers ==
    [id \in UserIds |->
        IF id = "u1" THEN NewUser("admin@t1", "pw1", "admin", "t1")
        ELSE NewUser("root@platform", "pw2", "super_admin", None)]

\* a student of the school t1 and a student of another school
EnrolledStudents ==
    [id \in StudentIds |->
        [tenant_id |-> IF id = "s1" THEN "t1" ELSE "t2",
         status |-> "active", current_grade |-> "grade_1"]]

Tenant(active, status, trial_end, subscription_end) ==
    [is_active |-> active, subscription_plan |-> "basic", subscription_status |-> status,
     trial_end_date |-> trial_end, subscription_end_date |-> subscription_end]

\* a school on a trial that ends after one second, or subscribed with no end date
ProvisionedTenants ==
    [TenantIds -> {Tenant(TRUE, "trial", {TicksPerSecond}, {}),
                   Tenant(TRUE, "active", {}, {})}]

\* every combination of the columns the entitlement gate reads
AnyTenants ==
    [TenantIds -> [is_active : BOOLEAN, subscription_plan : {"basic"},
                   subscription_status : TenantStatus,
                   trial_end_date : EndDates, subscription_end_date : EndDates]]

\* resp is the exchange a client has just had with the API, until time passes;
\* prev is its last refresh before that, until it calls something else
NoExchange ==
    [op |-> "none", req |-> [op |-> "none"], at |-> 0, status |-> 0, detail |-> "", body |-> {}]

Idle == [pc |-> "idle", email |-> None, password |-> None, loaded |-> {}]

Init ==
    /\ now = 0
    /\ ticks = 0
    /\ users = ProvisionedUsers
    /\ tenants \in ProvisionedTenants
    /\ held = {}
    /\ resp = NoExchange
    /\ prev = NoExchange
    /\ workers = [w \in Workers |-> Idle]
    /\ students = EnrolledStudents

\* the school administrator in each status an identity can have
InitLockout ==
    /\ now = 0
    /\ ticks = 0
    /\ users \in {[ProvisionedUsers EXCEPT !["u1"].status = st] : st \in UserStatus}
    /\ tenants \in ProvisionedTenants
    /\ held = {}
    /\ resp = NoExchange
    /\ prev = NoExchange
    /\ workers = [w \in Workers |-> Idle]
    /\ students = EnrolledStudents

\* a client that logged in when the service started and kept its tokens
InitSession ==
    /\ now = 0
    /\ ticks = 0
    /\ \E id \in UserIds :
          /\ users = [ProvisionedUsers EXCEPT ![id] = update_last_login(@, 0)]
          /\ held = {LoginResponse(id, users[id], 0)}
    /\ tenants \in ProvisionedTenants
    /\ resp = NoExchange
    /\ prev = NoExchange
    /\ workers = [w \in Workers |-> Idle]
    /\ students = EnrolledStudents

\* an identity that already failed some logins, below the lockout threshold
InitConc ==
    /\ now = 0
    /\ ticks = 0
    /\ \E n \in 0..(LOCK_THRESHOLD - 1) :
          users = [ProvisionedUsers EXCEPT !["u1"].failed_login_attempts = n]
    /\ tenants \in ProvisionedTenants
    /\ held = {}
    /\ resp = NoExchange
    /\ prev = NoExchange
    /\ workers = [w \in Workers |-> Idle]
    /\ students = EnrolledStudents

\* a logged-in identity of each role
InitRoles ==
    /\ now = 0
    /\ ticks = 0
    /\ \E id \in UserIds, r \in UserRole \ {"super_admin"} :
          /\ users = [[ProvisionedUsers EXCEPT !["u1"].role = r]
                         EXCEPT ![id] = update_last_login(@, 0)]
          /\ held = {LoginResponse(id, users[id], 0)}
    /\ tenants \in ProvisionedTenants
    /\ resp = NoExchange
    /\ prev = NoExchange
    /\ workers = [w \in Workers |-> Idle]
    /\ students = EnrolledStudents

\* a school on each of the plans
InitPlans ==
    /\ now = 0
    /\ ticks = 0
    /\ users = ProvisionedUsers
    /\ tenants \in [TenantIds -> {[Tenant(TRUE, "active", {}, {})
                                      EXCEPT !.subscription_plan = p] :
                                    p \in SubscriptionPlan}]
    /\ held = {}
    /\ resp = NoExchange
    /\ prev = NoExchange
    /\ workers = [w \in Workers |-> Idle]
    /\ students = EnrolledStudents

\* a client that holds the tokens of a login, its identity since put in any status
InitGuard ==
    /\ now = 0
    /\ ticks = 0
    /\ \E id \in UserIds, st \in UserStatus :
          /\ users = [ProvisionedUsers EXCEPT
                         ![id] = [update_last_login(@, 0) EXCEPT !.status = st]]
          /\ held = {LoginResponse(id, users[id], 0)}
    /\ tenants \in ProvisionedTenants
    /\ resp = NoExchange
    /\ prev = NoExchange
    /\ workers = [w \in Workers |-> Idle]
    /\ students = EnrolledStudents

InitGate ==
    /\ now = 0
    /\ ticks = 0
    /\ users = ProvisionedUsers
    /\ tenants \in AnyTenants
    /\ held = {}
    /\ resp = NoExchange
    /\ prev = NoExchange
    /\ workers = [w \in Workers |-> Idle]
    /\ students = EnrolledStudents

(***************************************************************************)
(* POST /auth/login (app/api/v1/auth.py).                                  *)
(***************************************************************************)
HTTPException(status, detail) == [status |-> status, detail |-> detail, user |-> {}]

QueryUserByEmail(email) == {id \in DOMAIN users : users[id].email = email}

authenticate_user(email, password) ==
    {id \in QueryUserByEmail(email) : verify_password(password, users[id].hashed_password)}

\* login without the tenant's entitlement check
login_try_NoGate(email, password) ==
    LET found == authenticate_user(email, password)
    IN  IF found = {} THEN HTTPException(401, "Incorrect email or password")
        ELSE LET id == CHOOSE i \in found : TRUE
             IN  IF ~can_login(users[id], now)
                 THEN HTTPException(401, "Account is locked or inactive")
                 ELSE [status |-> 200, detail |-> "", user |-> {id}]

\* login that tells an unknown email from a wrong password
login_try_UserNotFound(email, password) ==
    IF QueryUserByEmail(email) = {} THEN HTTPException(404, "User not found")
    ELSE login_try_NoGate(email, password)

\* the try block of login up to the commit: the exception raised, or the user
login_try(email, password) ==
    LET found == authenticate_user(email, password)
    IN  IF found = {} THEN HTTPException(401, "Incorrect email or password")
        ELSE LET id == CHOOSE i \in found : TRUE
                 u == users[id]
             IN  IF ~can_login(u, now)
                 THEN HTTPException(401, "Account is locked or inactive")
                 ELSE IF /\ u.role # "super_admin"
                         /\ u.tenant_id # None
                         /\ \/ u.tenant_id \notin DOMAIN tenants
                            \/ ~can_access_system(tenants[u.tenant_id], now)
                 THEN HTTPException(403, "School subscription has expired or is inactive")
                 ELSE [status |-> 200, detail |-> "", user |-> {id}]

Login(email, password) ==
    LET out == login_try(email, password)
        rows == QueryUserByEmail(email)
    IN  /\ IF out.status = 200
           THEN LET id == CHOOSE i \in out.user : TRUE
                    u == update_last_login(reset_failed_login(users[id]), now)
                IN  /\ users' = [users EXCEPT ![id] = u]
                    /\ resp' = [op |-> "login",
                                req |-> [email |-> email, password |-> password],
                                at |-> now, status |-> 200, detail |-> "",
                                body |-> {LoginResponse(id, u, now)}]
           ELSE /\ \A id \in rows : users[id].failed_login_attempts < MaxFailed
                /\ users' = [id \in DOMAIN users |->
                                IF id \in rows
                                THEN increment_failed_login(users[id], now)
                                ELSE users[id]]
                /\ resp' = [op |-> "login",
                            req |-> [email |-> email, password |-> password],
                            at |-> now, status |-> out.status, detail |-> out.detail,
                            body |-> {}]
        /\ prev' = NoExchange
        /\ UNCHANGED <<now, ticks, tenants, held, workers, students>>

(***************************************************************************)
(* The clock.                                                              *)
(***************************************************************************)
Advance(d) ==
    /\ ticks < MaxTicks
    /\ now' = now + d
    /\ ticks' = ticks + 1
    /\ resp' = NoExchange
    /\ prev' = IF resp.op = "refresh" THEN resp ELSE prev
    /\ UNCHANGED <<users, tenants, held, workers, students>>

(***************************************************************************)
(* The tokens a client can present: the ones it was handed, and what it can*)
(* make of them without the secret.                                        *)
(***************************************************************************)
TokensOf(bodies) == UNION {{b.access_token, b.refresh_token} : b \in bodies}

Handed == TokensOf(held) \cup (IF resp.op \in {"login", "refresh"} THEN TokensOf(resp.body) ELSE {})

Resigned(token) == [token EXCEPT !.sig = Sign(token.claims, "attacker-key")]

Tampered(token) == [token EXCEPT !.claims.sub = IF @ = "u1" THEN "u2" ELSE "u1"]

Garbled(token) == [token EXCEPT !.wf = FALSE]

Forgeries ==
    LET mine == TokensOf(held)
    IN  {Resigned(k) : k \in mine} \cup {Tampered(k) : k \in mine}
            \cup {Garbled(k) : k \in mine}

Presentable == Handed \cup Forgeries

\* the client keeps the token pair of the last response
Store ==
    /\ resp.op \in {"login", "refresh"}
    /\ resp.status = 200
    /\ held # resp.body
    /\ held' = resp.body
    /\ UNCHANGED <<now, ticks, users, tenants, resp, prev, workers, students>>

(***************************************************************************)
(* POST /auth/refresh (app/api/v1/auth.py).                                *)
(***************************************************************************)
refresh_try_AnyKind(token) ==
    LET payload == verify_token(token, now)
    IN  IF payload = {}
        THEN HTTPException(401, "Invalid refresh token")
        ELSE LET user_id == Get(CHOOSE c \in payload : TRUE, "sub")
                 found == {id \in DOMAIN users : id = user_id}
             IN  IF found = {} THEN HTTPException(401, "User not found")
                 ELSE [status |-> 200, detail |-> "", user |-> found]

\* refresh that asks what login asks of the identity
refresh_try_CanLogin(token) ==
    LET payload == verify_token(token, now)
    IN  IF payload = {} \/ (\E c \in payload : Get(c, "type") # "refresh")
        THEN HTTPException(401, "Invalid refresh token")
        ELSE LET user_id == Get(CHOOSE c \in payload : TRUE, "sub")
                 found == {id \in DOMAIN users : id = user_id}
             IN  IF found = {} THEN HTTPException(401, "User not found")
                 ELSE IF \E id \in found : ~can_login(users[id], now)
                 THEN HTTPException(401, "Account is locked or inactive")
                 ELSE [status |-> 200, detail |-> "", user |-> found]

refresh_try(token) ==
    LET payload == verify_token(token, now)
    IN  IF payload = {} \/ (\E c \in payload : Get(c, "type") # "refresh")
        THEN HTTPException(401, "Invalid refresh token")
        ELSE LET user_id == Get(CHOOSE c \in payload : TRUE, "sub")
                 found == {id \in DOMAIN users : id = user_id}
             IN  IF found = {} THEN HTTPException(401, "User not found")
                 ELSE [status |-> 200, detail |-> "", user |-> found]

Refresh(token) ==
    LET out == refresh_try(token)
    IN  /\ resp' = [op |-> "refresh", req |-> [refresh_token |-> token], at |-> now,
                    status |-> out.status, detail |-> out.detail,
                    body |-> {LoginResponse(id, users[id], now) : id \in out.user}]
        /\ prev' = IF resp.op = "refresh" THEN resp ELSE prev
        /\ UNCHANGED <<now, ticks, users, tenants, held, workers, students>>

(***************************************************************************)
(* Protected routes: the dependencies FastAPI resolves before the handler  *)
(* (app/core/security.py).  stages lists the pipeline stages a request has *)
(* passed.                                                                 *)
(***************************************************************************)
Rejected(status, detail, stages) ==
    [status |-> status, detail |-> detail, user |-> {}, tenant |-> {}, stages |-> stages]

get_current_user_AccessOnly(token) ==
    LET payload == {c \in verify_token(token, now) : Get(c, "type") # "refresh"}
    IN  IF payload = {}
        THEN Rejected(401, "Could not validate credentials", <<>>)
        ELSE LET user_id == Get(CHOOSE c \in payload : TRUE, "sub")
                 found == {id \in DOMAIN users : id = user_id}
             IN  IF user_id = None
                 THEN Rejected(401, "Could not validate credentials", <<"TokenVerified">>)
                 ELSE IF found = {}
                 THEN Rejected(401, "User not found", <<"TokenVerified">>)
                 ELSE [status |-> 200, detail |-> "", user |-> found, tenant |-> {},
                       stages |-> <<"TokenVerified", "IdentityResolved">>]

get_current_user(token) ==
    LET payload == verify_token(token, now)
    IN  IF payload = {}
        THEN Rejected(401, "Could not validate credentials", <<>>)
        ELSE LET user_id == Get(CHOOSE c \in payload : TRUE, "sub")
                 found == {id \in DOMAIN users : id = user_id}
             IN  IF user_id = None
                 THEN Rejected(401, "Could not validate credentials", <<"TokenVerified">>)
                 ELSE IF found = {}
                 THEN Rejected(401, "User not found", <<"TokenVerified">>)
                 ELSE [status |-> 200, detail |-> "", user |-> found, tenant |-> {},
                       stages |-> <<"TokenVerified", "IdentityResolved">>]

role_checker_AnyRole(required_roles, cu) ==
    IF cu.status # 200 THEN cu
    ELSE IF cu.user = {} THEN Rejected(401, "Not authenticated", cu.stages)
    ELSE [cu EXCEPT !.stages = Append(@, "RoleChecked")]

\* RoleChecker.require_roles(required_roles) on the outcome of get_current_user
role_checker(required_roles, cu) ==
    IF cu.status # 200 THEN cu
    ELSE IF cu.user = {} THEN Rejected(401, "Not authenticated", cu.stages)
    ELSE IF \E id \in cu.user : users[id].role \notin required_roles
    THEN Rejected(403, "Insufficient permissions", cu.stages)
    ELSE [cu EXCEPT !.stages = Append(@, "RoleChecked")]

require_super_admin(cu) == role_checker({"super_admin"}, cu)

require_admin(cu) == role_checker({"admin", "super_admin"}, cu)

require_teacher_TeacherOnly(cu) == role_checker({"teacher"}, cu)

require_teacher(cu) == role_checker({"teacher", "admin", "super_admin"}, cu)

require_student(cu) == role_checker({"student"}, cu)

require_parent(cu) == role_checker({"parent"}, cu)

\* the convenience checks by name
Checkers == {"require_super_admin", "require_admin", "require_teacher",
             "require_student", "require_parent"}

require(name, cu) ==
    CASE name = "require_super_admin" -> require_super_admin(cu)
      [] name = "require_admin" -> require_admin(cu)
      [] name = "require_teacher" -> require_teacher(cu)
      [] name = "require_student" -> require_student(cu)
      [] name = "require_parent" -> require_parent(cu)

get_current_tenant(cu) ==
    IF cu.status # 200 THEN cu
    ELSE LET u == users[CHOOSE id \in cu.user : TRUE]
         IN  IF u.tenant_id = None
             THEN Rejected(400, "User not associated with any tenant", cu.stages)
             ELSE IF u.tenant_id \notin DOMAIN tenants
             THEN Rejected(404, "Tenant not found", cu.stages)
             ELSE [cu EXCEPT !.tenant = {u.tenant_id},
                             !.stages = Append(@, "TenantResolved")]

\* the dependencies of a route, resolved in order
Depends(route, token) ==
    IF route = "list_students" THEN get_current_user(token)
    ELSE IF route = "create_student" THEN require_admin(get_current_user(token))
    ELSE get_current_tenant(get_current_user(token))

Request(token, route) ==
    LET dep == Depends(route, token)
    IN  /\ resp' = [op |-> "request", req |-> [token |-> token, route |-> route],
                    at |-> now, status |-> dep.status, detail |-> dep.detail,
                    body |-> IF dep.status = 200
                             THEN {[user |-> dep.user, tenant |-> dep.tenant,
                                    stages |-> Append(dep.stages, "Dispatched")]}
                             ELSE {[user |-> {}, tenant |-> {},
                                    stages |-> Append(dep.stages, "Rejected")]}]
        /\ prev' = NoExchange
        /\ UNCHANGED <<now, ticks, users, tenants, held, workers, students>>

\* the X-Tenant-ID header a client may send (settings.TENANT_HEADER), or none
TenantHeaders == {None, "t1", "t2"}

resolve_tenant_FromHeader(request) ==
    LET cu == get_current_user(request.token)
    IN  IF cu.status = 200 /\ request.tenant_header \in DOMAIN tenants
        THEN [cu EXCEPT !.tenant = {request.tenant_header},
                        !.stages = Append(@, "TenantResolved")]
        ELSE get_current_tenant(cu)

\* Depends(get_current_tenant) on a request: nothing reads its headers
resolve_tenant(request) == get_current_tenant(get_current_user(request.token))

\* a route that takes its tenant from Depends(get_current_tenant)
TenantRequest(token, header) ==
    LET request == [token |-> token, tenant_header |-> header]
        dep == resolve_tenant(request)
    IN  /\ resp' = [op |-> "tenant_request", req |-> request, at |-> now,
                    status |-> dep.status, detail |-> dep.detail,
                    body |-> IF dep.status = 200
                             THEN {[user |-> dep.user, tenant |-> dep.tenant]}
                             ELSE {}]
        /\ prev' = IF resp.op = "tenant_request" THEN resp ELSE NoExchange
        /\ UNCHANGED <<now, ticks, users, tenants, held, workers, students>>

\* the lists of roles a route may require
RoleSets ==
    {{}, UserRole, {"admin", "super_admin"}, {"teacher", "admin", "super_admin"},
     {"admin", "teacher"}, {"admin", "teacher", "student", "parent"}}
        \cup {{r} : r \in UserRole}

\* a role check that trusts the role claim of the token
RequireRoles_TokenRole(token, required_roles) ==
    LET cu == get_current_user(token)
        dep == IF cu.status # 200 THEN cu
               ELSE IF Get(token.claims, "role") \notin required_roles
               THEN Rejected(403, "Insufficient permissions", cu.stages)
               ELSE cu
    IN  /\ resp' = [op |-> "require_roles",
                    req |-> [token |-> token, required_roles |-> required_roles],
                    at |-> now, status |-> dep.status, detail |-> dep.detail,
                    body |-> {[user |-> UserProfile(id, users[id])] : id \in dep.user}]
        /\ prev' = NoExchange
        /\ UNCHANGED <<now, ticks, users, tenants, held, workers, students>>

\* a route guarded by Depends(RoleChecker.require_roles(required_roles))
RequireRoles(token, required_roles) ==
    LET dep == role_checker(required_roles, get_current_user(token))
    IN  /\ resp' = [op |-> "require_roles",
                    req |-> [token |-> token, required_roles |-> required_roles],
                    at |-> now, status |-> dep.status, detail |-> dep.detail,
                    body |-> {[user |-> UserProfile(id, users[id])] : id \in dep.user}]
        /\ prev' = NoExchange
        /\ UNCHANGED <<now, ticks, users, tenants, held, workers, students>>

\* a route guarded by one of the convenience checks
RequireNamed(token, name) ==
    LET dep == require(name, get_current_user(token))
    IN  /\ resp' = [op |-> "require", req |-> [token |-> token, checker |-> name],
                    at |-> now, status |-> dep.status, detail |-> dep.detail,
                    body |-> {[user |-> UserProfile(id, users[id])] : id \in dep.user}]
        /\ prev' = NoExchange
        /\ UNCHANGED <<now, ticks, users, tenants, held, workers, students>>

\* POST /auth/logout: answers the caller and changes nothing
logout(token) ==
    LET dep == get_current_user(token)
        out == [op |-> "logout", req |-> [token |-> token], at |-> now,
                status |-> dep.status, detail |-> dep.detail,
                body |-> {[message |-> "Logout successful"] : id \in dep.user}]
    IN  /\ resp' = out
        /\ prev' = out
        /\ UNCHANGED <<now, ticks, users, tenants, held, workers, students>>

(***************************************************************************)
(* The row of an identity is removed from the credential store.            *)
(***************************************************************************)
PurgeUser(id) ==
    /\ id \in DOMAIN users
    /\ users' = [i \in DOMAIN users \ {id} |-> users[i]]
    /\ resp' = NoExchange
    /\ prev' = NoExchange
    /\ UNCHANGED <<now, ticks, tenants, held, workers, students>>

(***************************************************************************)
(* Registration, e-mail verification and the user service                  *)
(* (app/api/v1/auth.py, app/services/auth_service.py).  uuid4 is a value   *)
(* no row holds yet.                                                       *)
(***************************************************************************)
Added(id, u) == [i \in DOMAIN users \cup {id} |-> IF i = id THEN u ELSE users[i]]

Answer(op, req, status, detail, body) ==
    [op |-> op, req |-> req, at |-> now, status |-> status, detail |-> detail,
     body |-> body]

\* POST /auth/register: the 400 of a taken e-mail is caught by the handler's
\* own except Exception and answered 500
register(email, password, role) ==
    /\ LET req == [email |-> email, password |-> password, role |-> role]
       IN  IF QueryUserByEmail(email) # {}
           THEN /\ users' = users
                /\ resp' = Answer("register", req, 500, "Registration failed", {})
           ELSE \E id \in RegisterIds \ DOMAIN users :
                   /\ users' = Added(id, PendingUser(email, password, role, None))
                   /\ resp' = Answer("register", req, 200, "", {[user_id |-> id]})
    /\ prev' = NoExchange
    /\ UNCHANGED <<now, ticks, tenants, held, workers, students>>

\* POST /auth/resend-verification
resend_verification(email) ==
    /\ LET req == [email |-> email]
           found == QueryUserByEmail(email)
       IN  IF found = {}
           THEN /\ users' = users
                /\ resp' = Answer("resend_verification", req, 404, "User not found", {})
           ELSE LET id == CHOOSE i \in found : TRUE
                IN  IF users[id].is_email_verified
                    THEN /\ users' = users
                         /\ resp' = Answer("resend_verification", req, 400,
                                           "Email already verified", {})
                    ELSE \E token \in VerificationTokens :
                            /\ \A i \in DOMAIN users :
                                  users[i].email_verification_token # token
                            /\ users' = [users EXCEPT
                                            ![id].email_verification_token = token]
                            /\ resp' = Answer("resend_verification", req, 200, "",
                                              {[verification_token |-> token]})
    /\ prev' = NoExchange
    /\ UNCHANGED <<now, ticks, tenants, held, workers, students>>

\* POST /auth/verify-email/{token}
verify_email(token) ==
    /\ LET req == [token |-> token]
           found == {i \in DOMAIN users : users[i].email_verification_token = token}
       IN  IF found = {}
           THEN /\ users' = users
                /\ resp' = Answer("verify_email", req, 400, "Invalid verification token", {})
           ELSE LET id == CHOOSE i \in found : TRUE
                IN  /\ users' = [users EXCEPT ![id].is_email_verified = TRUE,
                                              ![id].email_verification_token = None,
                                              ![id].status = "active"]
                    /\ resp' = Answer("verify_email", req, 200, "", {})
    /\ prev' = NoExchange
    /\ UNCHANGED <<now, ticks, tenants, held, workers, students>>

\* AuthService.create_user, as TeacherService.create_teacher calls it; the
\* unique index on users.email makes the commit of a taken e-mail fail
create_user(user_data) ==
    /\ IF QueryUserByEmail(user_data.email) # {}
       THEN /\ users' = users
            /\ resp' = Answer("create_user", user_data, 500, "IntegrityError", {})
       ELSE \E id \in RegisterIds \ DOMAIN users :
               /\ users' = Added(id, PendingUser(user_data.email, user_data.password,
                                                 user_data.role, user_data.tenant_id))
               /\ resp' = Answer("create_user", user_data, 200, "", {[user_id |-> id]})
    /\ prev' = NoExchange
    /\ UNCHANGED <<now, ticks, tenants, held, workers, students>>

\* AuthService.update_user: setattr of every field the row has, but id
update_user(user_id, user_data) ==
    /\ IF user_id \notin DOMAIN users
       THEN /\ users' = users
            /\ resp' = Answer("update_user", [user_id |-> user_id], 404, "", {})
       ELSE /\ users' = [users EXCEPT ![user_id] =
                            [f \in DOMAIN @ |->
                                IF f \in DOMAIN user_data /\ f # "id"
                                THEN user_data[f] ELSE @[f]]]
            /\ resp' = Answer("update_user", [user_id |-> user_id], 200, "", {})
    /\ prev' = NoExchange
    /\ UNCHANGED <<now, ticks, tenants, held, workers, students>>

\* AuthService.delete_user: a soft delete
delete_user(user_id) ==
    /\ IF user_id \notin DOMAIN users
       THEN /\ users' = users
            /\ resp' = Answer("delete_user", [user_id |-> user_id], 404, "", {})
       ELSE /\ users' = [users EXCEPT ![user_id].status = "inactive"]
            /\ resp' = Answer("delete_user", [user_id |-> user_id], 200, "", {})
    /\ prev' = NoExchange
    /\ UNCHANGED <<now, ticks, tenants, held, workers, students>>

(***************************************************************************)
(* The students API (app/api/v1/students.py, StudentService).              *)
(***************************************************************************)
StudentService_get_student_ById(student_id, tenant_id) ==
    {id \in DOMAIN students : id = student_id}

StudentService_get_student(student_id, tenant_id) ==
    {id \in DOMAIN students : id = student_id /\ students[id].tenant_id = tenant_id}

\* the student rows a request of the caller cu for student_id is about
StudentOf(cu, student_id) ==
    UNION {StudentService_get_student(student_id, users[id].tenant_id) : id \in cu.user}

StudentAnswer(op, token, student_id, dep, found) ==
    IF dep.status # 200
    THEN Answer(op, [token |-> token, student_id |-> student_id],
                dep.status, dep.detail, {})
    ELSE IF found = {}
    THEN Answer(op, [token |-> token, student_id |-> student_id],
                404, "Student not found", {})
    ELSE Answer(op, [token |-> token, student_id |-> student_id], 200, "",
                {[id |-> id, student |-> students'[id]] : id \in found})

\* GET /students/{student_id}
GetStudent(token, student_id) ==
    LET dep == get_current_user(token)
        found == IF dep.status = 200 THEN StudentOf(dep, student_id) ELSE {}
    IN  /\ students' = students
        /\ resp' = StudentAnswer("get_student", token, student_id, dep, found)
        /\ prev' = NoExchange
        /\ UNCHANGED <<now, ticks, users, tenants, held, workers>>

\* PUT /students/{student_id}
UpdateStudent(token, student_id, student_data) ==
    LET dep == require_admin(get_current_user(token))
        found == IF dep.status = 200 THEN StudentOf(dep, student_id) ELSE {}
    IN  /\ students' = [id \in DOMAIN students |->
                            IF id \in found
                            THEN [f \in DOMAIN students[id] |->
                                     IF f \in DOMAIN student_data
                                     THEN student_data[f] ELSE students[id][f]]
                            ELSE students[id]]
        /\ resp' = StudentAnswer("update_student", token, student_id, dep, found)
        /\ prev' = NoExchange
        /\ UNCHANGED <<now, ticks, users, tenants, held, workers>>

\* DELETE /students/{student_id}: a soft delete
DeleteStudent(token, student_id) ==
    LET dep == require_admin(get_current_user(token))
        found == IF dep.status = 200 THEN StudentOf(dep, student_id) ELSE {}
    IN  /\ students' = [id \in DOMAIN students |->
                            IF id \in found
                            THEN [students[id] EXCEPT !.status = "inactive"]
                            ELSE students[id]]
        /\ resp' = StudentAnswer("delete_student", token, student_id, dep, found)
        /\ prev' = NoExchange
        /\ UNCHANGED <<now, ticks, users, tenants, held, workers>>

(***************************************************************************)
(* The platform operator suspends a school (Tenant.subscription_status).   *)
(***************************************************************************)
SuspendTenant(t) ==
    /\ tenants[t].subscription_status \in {"trial", "active"}
    /\ tenants' = [tenants EXCEPT ![t].subscription_status = "suspended"]
    /\ resp' = NoExchange
    /\ prev' = NoExchange
    /\ UNCHANGED <<now, ticks, users, held, workers, students>>

(***************************************************************************)
(* A usage check against the plan of a school (Tenant.can_use_feature).    *)
(***************************************************************************)
CanUseFeature(t, feature_name, current_usage) ==
    /\ resp' = [op |-> "can_use_feature",
                req |-> [tenant |-> t, feature_name |-> feature_name,
                         current_usage |-> current_usage],
                at |-> now, status |-> 200, detail |-> "",
                body |-> {[limit |-> get_feature_limit(tenants[t], feature_name),
                           allowed |-> can_use_feature(tenants[t], feature_name,
                                                       current_usage)]}]
    /\ prev' = NoExchange
    /\ UNCHANGED <<now, ticks, users, tenants, held, workers, students>>

(***************************************************************************)
(* Login in a deployment with several server processes.  Each process has  *)
(* its own database session: authenticate_user loads the row, the handler  *)
(* changes the loaded object and commits, and the UPDATE writes the        *)
(* attributes the handler assigned.                                        *)
(***************************************************************************)
LoginLoad(w, email, password) ==
    /\ workers[w].pc = "idle"
    /\ workers' = [workers EXCEPT ![w] =
                      [pc |-> "loaded", email |-> email, password |-> password,
                       loaded |-> {[id |-> id, row |-> users[id]] :
                                       id \in QueryUserByEmail(email)}]]
    /\ UNCHANGED <<now, ticks, users, tenants, held, resp, prev, students>>

\* login_try on the row the session loaded
login_try_loaded(me) ==
    LET found == {l \in me.loaded : verify_password(me.password, l.row.hashed_password)}
    IN  IF found = {} THEN HTTPException(401, "Incorrect email or password")
        ELSE LET l == CHOOSE x \in found : TRUE
                 u == l.row
             IN  IF ~can_login(u, now)
                 THEN HTTPException(401, "Account is locked or inactive")
                 ELSE IF /\ u.role # "super_admin"
                         /\ u.tenant_id # None
                         /\ \/ u.tenant_id \notin DOMAIN tenants
                            \/ ~can_access_system(tenants[u.tenant_id], now)
                 THEN HTTPException(403, "School subscription has expired or is inactive")
                 ELSE [status |-> 200, detail |-> "", user |-> {l.id}]

\* the UPDATE of a flush: the attributes of the loaded rows that were assigned
\* a value other than the loaded one
Flush(changes) ==
    [id \in DOMAIN users |->
        IF \E c \in changes : c.id = id
        THEN LET c == CHOOSE x \in changes : x.id = id
             IN  [f \in DOMAIN users[id] |->
                     IF c.new[f] # c.old[f] THEN c.new[f] ELSE users[id][f]]
        ELSE users[id]]

LoginCommit(w) ==
    LET me == workers[w]
        out == login_try_loaded(me)
        Succeed(u) == update_last_login(reset_failed_login(u), now)
        Fail(u) == increment_failed_login(u, now)
    IN  /\ me.pc = "loaded"
        /\ IF out.status = 200
           THEN LET mine == {l \in me.loaded : l.id \in out.user}
                IN  /\ users' = Flush({[id |-> l.id, old |-> l.row, new |-> Succeed(l.row)] :
                                          l \in mine})
                    /\ resp' = [op |-> "login",
                                req |-> [email |-> me.email, password |-> me.password],
                                at |-> now, status |-> 200, detail |-> "",
                                body |-> {LoginResponse(l.id, Succeed(l.row), now) :
                                              l \in mine}]
           ELSE /\ \A l \in me.loaded : l.row.failed_login_attempts < MaxFailed
                /\ users' = Flush({[id |-> l.id, old |-> l.row, new |-> Fail(l.row)] :
                                      l \in me.loaded})
                /\ resp' = [op |-> "login",
                            req |-> [email |-> me.email, password |-> me.password],
                            at |-> now, status |-> out.status, detail |-> out.detail,
                            body |-> {}]
        /\ workers' = [workers EXCEPT ![w] = Idle]
        /\ prev' = NoExchange
        /\ UNCHANGED <<now, ticks, tenants, held, students>>

LoginEmails == {"admin@t1", "nobody@nowhere"}

(***************************************************************************)
(* The whole service, one request at a time.                               *)
(***************************************************************************)
Next ==
    \/ \E e \in Emails, p \in Passwords : Login(e, p)
    \/ \E k \in Presentable : Refresh(k)
    \/ \E k \in Presentable, r \in Routes : Request(k, r)
    \/ Store
    \/ \E d \in ClockSteps : Advance(d)
    \/ \E t \in TenantIds : SuspendTenant(t)

Spec == Init /\ [][Next]_vars

\* the authenticator: logins against the school administrator and an unknown email
NextLogin ==
    \/ \E e \in LoginEmails, p \in Passwords : Login(e, p)
    \/ \E d \in ClockSteps : Advance(d)
    \/ \E t \in TenantIds : SuspendTenant(t)

SpecLogin == Init /\ [][NextLogin]_vars

\* protected requests of a logged-in client, while time passes and the operator acts
NextPipeline ==
    \/ \E k \in Presentable, r \in Routes : Request(k, r)
    \/ \E d \in ClockSteps : Advance(d)
    \/ \E t \in TenantIds : SuspendTenant(t)

SpecPipeline == InitSession /\ [][NextPipeline]_vars

\* the life of the tokens of a logged-in client: refreshed, kept, presented
NextTokens ==
    \/ \E k \in Presentable : Refresh(k)
    \/ Store
    \/ \E k \in Presentable : Request(k, "list_students")
    \/ \E d \in ClockSteps : Advance(d)

SpecTokens == InitSession /\ [][NextTokens]_vars

\* the entitlement gate on every tenant row
NextGate ==
    \/ Login("admin@t1", "pw1")
    \/ \E d \in ClockSteps : Advance(d)

SpecGate == InitGate /\ [][NextGate]_vars

\* logins handled by several server processes at once
NextConc ==
    \/ \E w \in Workers, e \in LoginEmails, p \in Passwords : LoginLoad(w, e, p)
    \/ \E w \in Workers : LoginCommit(w)

SpecConc == InitConc /\ [][NextConc]_vars

\* usage checks on the plans
NextPlans ==
    \E t \in TenantIds, f \in FeatureNames, n \in Usages : CanUseFeature(t, f, n)

SpecPlans == InitPlans /\ [][NextPlans]_vars

\* role-guarded routes called by identities of every role
NextRoles ==
    \/ \E k \in Presentable, R \in RoleSets : RequireRoles(k, R)
    \/ \E k \in Presentable, c \in Checkers : RequireNamed(k, c)

SpecRoles == InitRoles /\ [][NextRoles]_vars

\* requests that name a tenant in a header
NextTenant ==
    \E k \in Presentable, h \in TenantHeaders : TenantRequest(k, h)

SpecTenant == InitSession /\ [][NextTenant]_vars

\* logins, right and wrong, against an identity in any status
NextLockout ==
    \/ \E e \in LoginEmails, p \in Passwords : Login(e, p)
    \/ \E d \in ClockSteps : Advance(d)

SpecLockout == InitLockout /\ [][NextLockout]_vars

\* refreshes over the life of a refresh token and of its identity
NextRefresh ==
    \/ \E k \in Presentable : Refresh(k)
    \/ \E d \in RefreshClockSteps : Advance(d)
    \/ \E id \in UserIds : PurgeUser(id)

SpecRefresh == InitSession /\ [][NextRefresh]_vars

\* the life of an identity: registered or provisioned, verified, updated
NextIdentity ==
    \/ \E e \in Emails, p \in Passwords, r \in UserRole : register(e, p, r)
    \/ \E e \in Emails : resend_verification(e)
    \/ \E token \in VerificationTokens : verify_email(token)
    \/ \E e \in Emails, p \in Passwords, t \in TenantIds :
          create_user([email |-> e, password |-> p, role |-> "teacher", tenant_id |-> t])
    \/ \E id \in UserIds \cup RegisterIds, d \in UserUpdates : update_user(id, d)

SpecIdentity == Init /\ [][NextIdentity]_vars

\* the students API called by identities of every role
NextStudents ==
    \/ \E k \in Presentable, sid \in StudentIds \cup {"s9"} : GetStudent(k, sid)
    \/ \E k \in Presentable, sid \in StudentIds \cup {"s9"}, d \in StudentUpdates :
          UpdateStudent(k, sid, d)
    \/ \E k \in Presentable, sid \in StudentIds \cup {"s9"} : DeleteStudent(k, sid)

SpecStudents == InitRoles /\ [][NextStudents]_vars

\* tokens presented as bearer credential and for refresh, over the life of the
\* tokens and of their identity
NextBearer ==
    \/ \E k \in Presentable : Request(k, "list_students")
    \/ \E k \in Presentable : Refresh(k)
    \/ \E d \in RefreshClockSteps : Advance(d)
    \/ \E id \in UserIds : PurgeUser(id)

SpecBearer == InitSession /\ [][NextBearer]_vars

\* logins over the life of an identity: registered, verified, soft-deleted
NextActivation ==
    \/ \E e \in LoginEmails, p \in Passwords : Login(e, p)
    \/ \E p \in Passwords : register("nobody@nowhere", p, "student")
    \/ \E e \in LoginEmails : resend_verification(e)
    \/ \E token \in VerificationTokens : verify_email(token)
    \/ \E id \in {"u1"} \cup RegisterIds : delete_user(id)

SpecActivation == InitLockout /\ [][NextActivation]_vars

\* bearer requests of a client whose identity is locked out or soft-deleted
NextGuard ==
    \/ \E k \in Presentable : Request(k, "list_students")
    \/ Login("admin@t1", "pw2")
    \/ \E id \in UserIds : delete_user(id)
    \/ \E d \in ClockSteps : Advance(d)

SpecGuard == InitGuard /\ [][NextGuard]_vars

\* refreshes of a client that logged out, whose identity is locked out or
\* soft-deleted, whose school is suspended
NextKeep ==
    \/ \E k \in TokensOf(held) : Refresh(k)
    \/ \E k \in TokensOf(held) : logout(k)
    \/ Login("admin@t1", "pw2")
    \/ \E id \in UserIds : delete_user(id)
    \/ \E t \in TenantIds : SuspendTenant(t)
    \/ \E d \in KeepClockSteps : Advance(d)

SpecKeep == InitGuard /\ [][NextKeep]_vars

\* role-guarded requests of a client whose identity gets another role or is
\* removed after the login
NextRoleChange ==
    \/ \E k \in TokensOf(held), R \in RoleSets : RequireRoles(k, R)
    \/ \E id \in UserIds, r \in UserRole : update_user(id, [role |-> r])
    \/ \E id \in UserIds : PurgeUser(id)

SpecRoleChange == InitRoles /\ [][NextRoleChange]_vars

(***************************************************************************)
(* The claims.                                                             *)
(***************************************************************************)
InvalidCredentials(x) == x.status = 401 /\ x.detail = "Incorrect email or password"

AccountLocked(x) == x.status = 401 /\ x.detail = "Account is locked or inactive"

TenantInaccessible(x) ==
    x.status = 403 /\ x.detail = "School subscription has expired or is inactive"

\* C1: once an identity has failed five logins and its lockout-until lies in the
\* future, every login attempt for it, with the right password or a wrong one,
\* fails with AccountLocked.
C1_LockedLoginFailsAccountLocked ==
    [][\A e \in LoginEmails, p \in Passwords :
          (/\ Login(e, p)
           /\ \E id \in QueryUserByEmail(e) :
                 /\ users[id].failed_login_attempts >= LOCK_THRESHOLD
                 /\ is_locked(users[id], now))
          => AccountLocked(resp')]_vars

\* C2 as stated: a login with the right password for an identity whose tenant
\* cannot access the system fails with TenantInaccessible and hands out no tokens.
C2_Original ==
    [][\A e \in LoginEmails, p \in Passwords :
          (/\ Login(e, p)
           /\ \E id \in authenticate_user(e, p) :
                 /\ users[id].tenant_id \in DOMAIN tenants
                 /\ ~can_access_system(tenants[users[id].tenant_id], now))
          => (TenantInaccessible(resp') /\ resp'.body = {})]_vars

\* C2 amended: a login with the right password for an identity that can log in
\* (active, not locked) and whose tenant cannot access the system fails with
\* TenantInaccessible, not InvalidCredentials, and hands out no tokens.
C2_TenantInaccessible ==
    [][\A e \in LoginEmails, p \in Passwords :
          (/\ Login(e, p)
           /\ \E id \in authenticate_user(e, p) :
                 /\ can_login(users[id], now)
                 /\ users[id].tenant_id \in DOMAIN tenants
                 /\ ~can_access_system(tenants[users[id].tenant_id], now))
          => (TenantInaccessible(resp') /\ ~InvalidCredentials(resp') /\ resp'.body = {})]_vars

\* C2 witness: the right password was given for an identity of a tenant that
\* cannot access the system, and the login was refused as TenantInaccessible.
C2_Witness ==
    /\ resp.op = "login"
    /\ TenantInaccessible(resp)
    /\ \E id \in authenticate_user(resp.req.email, resp.req.password) :
          /\ users[id].tenant_id \in DOMAIN tenants
          /\ ~can_access_system(tenants[users[id].tenant_id], now)

FullPipeline ==
    <<"TokenVerified", "IdentityResolved", "TenantResolved", "EntitlementChecked",
      "RoleChecked", "Dispatched">>

\* C3: a protected request that is dispatched to its handler has passed token
\* verification, identity resolution, tenant resolution, the entitlement check
\* and the role check, in this order; a request that fails a stage ends Rejected.
C3_EveryStagePassed ==
    resp.op = "request" =>
        \A b \in resp.body :
            /\ resp.status = 200 => b.stages = FullPipeline
            /\ resp.status # 200 => b.stages[Len(b.stages)] = "Rejected"

\* C4: once a tenant has been suspended, so that it can no longer access the
\* system, a request made with a still-valid token of one of its identities is
\* not dispatched.
C4_SuspendedTenantRejected ==
    resp.op = "request" =>
        \A b \in resp.body : \A id \in b.user :
            (/\ users[id].tenant_id \in DOMAIN tenants
             /\ tenants[users[id].tenant_id].subscription_status = "suspended"
             /\ ~can_access_system(tenants[users[id].tenant_id], now))
            => resp.status # 200

\* C5: every rejected login attempt, however it interleaves with other attempts,
\* leaves the identity's stored failed-login counter exactly one higher than it
\* was, locks the identity once the count has reached the threshold, and leaves
\* the other identities as they were.
C5_NoLostIncrement ==
    [][\A w \in Workers :
          (LoginCommit(w) /\ login_try_loaded(workers[w]).status # 200)
          => \A id \in DOMAIN users :
                IF \E l \in workers[w].loaded : l.id = id
                THEN /\ users'[id].failed_login_attempts
                            = users[id].failed_login_attempts + 1
                     /\ users'[id].failed_login_attempts >= LOCK_THRESHOLD
                            => is_locked(users'[id], now)
                ELSE users'[id] = users[id]]_vars

\* two refresh calls with the same token, the second at most one clock tick
\* after the first, which succeeded
RefreshedTwice ==
    /\ prev.op = "refresh" /\ resp.op = "refresh"
    /\ prev.req = resp.req
    /\ prev.status = 200
    /\ resp.at - prev.at <= 1

\* C6: two refresh calls in immediate succession with the same still-valid
\* refresh token both succeed and return two different access tokens, each of
\* which verifies.
C6_Original ==
    RefreshedTwice =>
        /\ resp.status = 200
        /\ \A a \in prev.body, b \in resp.body :
              /\ a.access_token # b.access_token
              /\ verify_token(a.access_token, now) # {}
              /\ verify_token(b.access_token, now) # {}

\* C6 amended: both calls succeed and each returned access token verifies; the
\* two access tokens differ exactly when the calls fall in different clock
\* seconds, and are the same token when they fall in the same second.
C6_RefreshTwice ==
    RefreshedTwice =>
        /\ resp.status = 200
        /\ \A a \in prev.body, b \in resp.body :
              /\ verify_token(a.access_token, now) # {}
              /\ verify_token(b.access_token, now) # {}
              /\ a.access_token = b.access_token
                    <=> timegm(prev.at) = timegm(resp.at)

\* C6 witness: the second of two refreshes within one clock second returned the
\* access token the first had returned.
C6_Witness ==
    /\ RefreshedTwice
    /\ resp.status = 200
    /\ timegm(prev.at) = timegm(resp.at)
    /\ \E a \in prev.body, b \in resp.body : a.access_token = b.access_token

\* a request to a route that needs only a known caller, made with an access
\* token this service signed
SignedRequest ==
    /\ resp.op = "request"
    /\ resp.req.route = "list_students"
    /\ resp.req.token \in {b.access_token : b \in held}

\* C7: a token presented at a clock time equal to its expiry instant is
\* rejected, and presented one second earlier it is accepted.
C7_Original ==
    SignedRequest =>
        /\ timegm(resp.at) = resp.req.token.claims.exp => resp.status = 401
        /\ timegm(resp.at) = resp.req.token.claims.exp - 1 => resp.status = 200

\* C7 amended: a token presented at a clock time equal to its expiry instant is
\* still accepted, as it is one second earlier; it is rejected from one second
\* after its expiry instant on.
C7_ExpiryBoundary ==
    SignedRequest =>
        /\ timegm(resp.at) = resp.req.token.claims.exp => resp.status = 200
        /\ timegm(resp.at) = resp.req.token.claims.exp - 1 => resp.status = 200
        /\ timegm(resp.at) >= resp.req.token.claims.exp + 1 => resp.status = 401

\* C7 witness: a request made in the very second the token expires was served.
C7_Witness ==
    /\ SignedRequest
    /\ timegm(resp.at) = resp.req.token.claims.exp
    /\ resp.status = 200

\* C8: verifying an access token issued for (id, role, tenant) before its expiry
\* returns claims with that subject, role and tenant; a token with a signature
\* that does not match the secret, or with a malformed payload, yields no claims.
C8_RoundTrip ==
    /\ \A id \in UserIds, role \in UserRole, tenant \in TenantIds \cup {None} :
          LET k == create_access_token([sub |-> id, role |-> role, tenant_id |-> tenant], 0)
          IN  timegm(now) < k.claims.exp
              => /\ verify_token(k, now) # {}
                 /\ \A c \in verify_token(k, now) :
                       c.sub = id /\ c.role = role /\ c.tenant_id = tenant
    /\ \A b \in held :
          timegm(now) < b.access_token.claims.exp
          => /\ verify_token(b.access_token, now) # {}
             /\ \A c \in verify_token(b.access_token, now) :
                   /\ c.sub = b.user.id
                   /\ c.role = b.user.role
                   /\ c.tenant_id = b.user.tenant_id
    /\ \A k \in Forgeries : verify_token(k, now) = {}
    /\ (resp.op = "request" /\ resp.req.token \in Forgeries) => resp.status = 401
    /\ (resp.op = "refresh" /\ resp.req.refresh_token \in Forgeries)
          => resp.status = 401

\* C8 witness: a forged token was presented and turned away, while the token it
\* was made from still verifies.
C8_Witness ==
    /\ resp.op = "request"
    /\ resp.req.token \in Forgeries
    /\ resp.status = 401
    /\ \E b \in held : verify_token(b.access_token, now) # {}

\* the tenant of the identity whose login was just answered
LoginTenants ==
    {users[id].tenant_id : id \in QueryUserByEmail(resp.req.email)} \cap DOMAIN tenants

\* C9: for a tenant that is not deactivated, on trial can_access holds if and
\* only if now <= trial-end, and with status active if and only if
\* now <= subscription-end.
C9_Original ==
    \A t \in DOMAIN tenants :
        LET tn == tenants[t]
        IN  tn.is_active =>
              /\ tn.subscription_status = "trial"
                    => (can_access_system(tn, now)
                          <=> \E d \in tn.trial_end_date : now <= d)
              /\ tn.subscription_status = "active"
                    => (can_access_system(tn, now)
                          <=> \E d \in tn.subscription_end_date : now <= d)

\* C9 amended: for a tenant that is not deactivated, on trial can_access holds
\* if and only if no trial-end is set or now <= trial-end, and with status
\* active if and only if no subscription-end is set or now <= subscription-end;
\* login lets an identity of the tenant in only when can_access holds.
C9_DateRule ==
    /\ \A t \in DOMAIN tenants :
          LET tn == tenants[t]
          IN  tn.is_active =>
                /\ tn.subscription_status = "trial"
                      => (can_access_system(tn, now)
                            <=> \/ tn.trial_end_date = {}
                                \/ \E d \in tn.trial_end_date : now <= d)
                /\ tn.subscription_status = "active"
                      => (can_access_system(tn, now)
                            <=> \/ tn.subscription_end_date = {}
                                \/ \E d \in tn.subscription_end_date : now <= d)
    /\ (resp.op = "login" /\ resp.status = 200)
          => \A t \in LoginTenants : can_access_system(tenants[t], now)
    /\ (resp.op = "login" /\ TenantInaccessible(resp))
          => \A t \in LoginTenants : ~can_access_system(tenants[t], now)

\* C9 witness: a login was refused because the trial of the tenant, which is
\* not deactivated, had ended.
C9_Witness ==
    /\ resp.op = "login"
    /\ TenantInaccessible(resp)
    /\ \E t \in LoginTenants :
          /\ tenants[t].is_active
          /\ tenants[t].subscription_status = "trial"
          /\ \E d \in tenants[t].trial_end_date : now > d

\* C10: a tenant that is deactivated, cancelled or suspended never has
\* can_access true, whatever its dates are and however long it stays so; no
\* login of one of its identities succeeds.
C10_NeverAccessible ==
    \A t \in DOMAIN tenants :
        LET tn == tenants[t]
        IN  (~tn.is_active \/ tn.subscription_status \in {"cancelled", "suspended"})
            => /\ ~can_access_system(tn, now)
               /\ (resp.op = "login" /\ t \in LoginTenants) => resp.status # 200

\* C10 witness: a login was refused for a cancelled tenant whose subscription
\* end date has not passed.
C10_Witness ==
    /\ resp.op = "login"
    /\ TenantInaccessible(resp)
    /\ \E t \in LoginTenants :
          /\ tenants[t].is_active
          /\ tenants[t].subscription_status = "cancelled"
          /\ \E d \in tenants[t].subscription_end_date : now <= d

\* C11: can_use is true if and only if the plan's limit for the feature is -1
\* or usage < limit; basic students has limit 100 (usage 100 denied, 99
\* allowed), enterprise students has limit -1 (always allowed), and an unknown
\* feature name has limit 0 and is denied for every usage.
C11_FeatureEntitlement ==
    resp.op = "can_use_feature" =>
        \A b \in resp.body :
            LET plan == tenants[resp.req.tenant].subscription_plan
                feature == resp.req.feature_name
                usage == resp.req.current_usage
            IN  /\ b.allowed <=> (b.limit = -1 \/ usage < b.limit)
                /\ (plan = "basic" /\ feature = "students")
                      => b.limit = 100 /\ (b.allowed <=> usage <= 99)
                /\ (plan = "enterprise" /\ feature = "students")
                      => b.limit = -1 /\ b.allowed
                /\ feature = "classrooms" => b.limit = 0 /\ ~b.allowed

\* C11 witness: a basic school with exactly 100 students was denied one more.
C11_Witness ==
    /\ resp.op = "can_use_feature"
    /\ tenants[resp.req.tenant].subscription_plan = "basic"
    /\ resp.req.feature_name = "students"
    /\ resp.req.current_usage = 100
    /\ \E b \in resp.body : ~b.allowed

\* the identity an access token of the client was issued to
CallerOf(token) == {b.user.id : b \in {h \in held : h.access_token = token}}

Forbidden(x) == x.status = 403 /\ x.detail = "Insufficient permissions"

\* C12: the role check returns the resolved identity unchanged when its role is
\* among the allowed roles and fails with Forbidden otherwise (a teacher is
\* Forbidden against {admin, super_admin} and passes against {teacher, admin,
\* super_admin}); with no identity resolved it fails Unauthenticated.
C12_RoleCheck ==
    resp.op = "require_roles" =>
        LET k == resp.req.token
            R == resp.req.required_roles
        IN  /\ \A h \in held :
                  h.access_token = k =>
                     /\ h.user.role \in R
                           => resp.status = 200 /\ resp.body = {[user |-> h.user]}
                     /\ h.user.role \notin R => Forbidden(resp) /\ resp.body = {}
                     /\ (h.user.role = "teacher" /\ R = {"admin", "super_admin"})
                           => Forbidden(resp)
                     /\ (h.user.role = "teacher"
                            /\ R = {"teacher", "admin", "super_admin"})
                           => resp.status = 200
            /\ k \in Forgeries => resp.status = 401 /\ resp.body = {}

\* C12 witness: a teacher was refused by a check for admin and super_admin.
C12_Witness ==
    /\ resp.op = "require_roles"
    /\ resp.req.required_roles = {"admin", "super_admin"}
    /\ Forbidden(resp)
    /\ \E id \in CallerOf(resp.req.token) : users[id].role = "teacher"

\* the roles each convenience check is to admit
Admitted ==
    [require_super_admin |-> {"super_admin"},
     require_admin |-> {"admin", "super_admin"},
     require_teacher |-> {"teacher", "admin", "super_admin"},
     require_student |-> {"student"},
     require_parent |-> {"parent"}]

\* C13: each convenience check admits exactly its roles and rejects every other
\* role: super admin {super_admin}, admin {admin, super_admin}, teacher
\* {teacher, admin, super_admin}, student {student}, parent {parent}.
C13_ConvenienceChecks ==
    resp.op = "require" =>
        \A id \in CallerOf(resp.req.token) :
            /\ users[id].role \in Admitted[resp.req.checker] => resp.status = 200
            /\ users[id].role \notin Admitted[resp.req.checker] => Forbidden(resp)
            /\ users[id].role = "staff" => Forbidden(resp)

\* C13 witness: an admin passed the teacher check.
C13_Witness ==
    /\ resp.op = "require"
    /\ resp.req.checker = "require_teacher"
    /\ resp.status = 200
    /\ \E id \in CallerOf(resp.req.token) : users[id].role = "admin"

\* C14: the tenant handed to a handler is determined by the verified token (the
\* identity it names) and never by the tenant header: two requests with the
\* same valid token and different tenant headers resolve to the same tenant
\* and are answered alike.
C14_TenantFromToken ==
    /\ (prev.op = "tenant_request" /\ resp.op = "tenant_request"
          /\ prev.req.token = resp.req.token)
          => /\ prev.status = resp.status
             /\ prev.detail = resp.detail
             /\ prev.body = resp.body
    /\ resp.op = "tenant_request"
          => \A b \in resp.body : \A c \in verify_token(resp.req.token, now) :
                b.user = {c.sub} /\ b.tenant = {users[c.sub].tenant_id}

\* C14 witness: a request that named a tenant in its header and the request
\* before it, with the same token and another header, got the caller's tenant.
C14_Witness ==
    /\ prev.op = "tenant_request" /\ resp.op = "tenant_request"
    /\ prev.req.token = resp.req.token
    /\ prev.req.tenant_header # resp.req.tenant_header
    /\ resp.req.tenant_header = "t2"
    /\ resp.status = 200
    /\ \E b \in resp.body : b.tenant = {"t1"}

\* the password of the login just answered does not match the identity's
WrongPassword ==
    \E id \in QueryUserByEmail(resp.req.email) :
        ~verify_password(resp.req.password, users[id].hashed_password)

\* C15: a login with an email that matches no identity and a login with an
\* existing email and a wrong password get the same rejection, InvalidCredentials
\* with the same status and message, in every state of the existing identity.
C15_NoUserEnumeration ==
    resp.op = "login" =>
        /\ QueryUserByEmail(resp.req.email) = {}
              => InvalidCredentials(resp) /\ resp.body = {}
        /\ WrongPassword => InvalidCredentials(resp) /\ resp.body = {}

\* C15 witness: a wrong password for a locked identity was answered with
\* InvalidCredentials.
C15_Witness ==
    /\ resp.op = "login"
    /\ WrongPassword
    /\ InvalidCredentials(resp)
    /\ \E id \in QueryUserByEmail(resp.req.email) : is_locked(users[id], now)

\* a token this service signed, not yet expired, that carries the refresh
\* marker and names an identity that exists
GoodRefreshToken(k) ==
    /\ k.wf
    /\ k.sig = Sign(k.claims, SECRET_KEY)
    /\ k.claims.exp >= timegm(now)
    /\ Get(k.claims, "type") = "refresh"
    /\ k.claims.sub \in DOMAIN users

\* C16: refresh issues a new token pair only for a token that verifies, carries
\* the refresh marker and names an identity that still exists; an access token,
\* an expired or tampered token and a refresh token of an identity that no
\* longer exists are rejected and get no tokens.
C16_RefreshOnlyForGoodToken ==
    resp.op = "refresh" =>
        LET k == resp.req.refresh_token
        IN  /\ resp.status = 200 <=> GoodRefreshToken(k)
            /\ resp.status # 200 => resp.status = 401 /\ resp.body = {}
            /\ resp.status = 200
                  => /\ resp.body # {}
                     /\ \A b \in resp.body :
                           /\ b.user.id = k.claims.sub
                           /\ verify_token(b.access_token, now) # {}
                           /\ Get(b.refresh_token.claims, "type") = "refresh"

\* C16 witness: a refresh token that still verifies was refused because its
\* identity no longer exists.
C16_Witness ==
    /\ resp.op = "refresh"
    /\ resp.status = 401
    /\ resp.detail = "User not found"
    /\ resp.req.refresh_token \in {h.refresh_token : h \in held}
    /\ verify_token(resp.req.refresh_token, now) # {}

\* C17: in every reachable state a super admin has no tenant reference, and
\* every identity of another role whose status is active references a tenant.
C17_IdentityTenantInvariant ==
    \A id \in DOMAIN users :
        /\ users[id].role = "super_admin" => users[id].tenant_id = None
        /\ (users[id].role # "super_admin" /\ users[id].status = "active")
              => users[id].tenant_id \in TenantIds

\* the tenant of the identity that made the request just answered
CallerTenant(x) ==
    {users[c.sub].tenant_id : c \in {v \in verify_token(x.req.token, now) :
                                        v.sub \in DOMAIN users}}

StudentOps == {"get_student", "update_student", "delete_student"}

\* C18: a student read, update or soft delete acts only on a student of the
\* caller's own tenant; for the id of another tenant's student the caller gets
\* 'not found', and no request changes a student of another tenant.
C18_TenantIsolation ==
    [][/\ resp'.op \in StudentOps
          => /\ \A b \in resp'.body :
                   CallerTenant(resp') = {students[b.id].tenant_id}
             /\ \A id \in StudentIds :
                   (resp'.req.student_id = id
                      /\ CallerTenant(resp') # {students[id].tenant_id})
                   => /\ resp'.status # 200
                      /\ resp'.status \in {401, 403}
                            \/ (resp'.status = 404 /\ resp'.detail = "Student not found")
       /\ \A id \in StudentIds :
             students'[id] # students[id]
             => /\ resp'.op \in {"update_student", "delete_student"}
                /\ resp'.req.student_id = id
                /\ CallerTenant(resp') = {students[id].tenant_id}
                /\ students'[id].tenant_id = students[id].tenant_id]_vars

\* C18 witness: the administrator of school t1 asked to delete the student of
\* another school, was told 'not found', and the student is as it was.
C18_Witness ==
    /\ resp.op = "delete_student"
    /\ resp.req.student_id = "s2"
    /\ \E c \in verify_token(resp.req.token, now) :
          c.sub \in DOMAIN users /\ users[c.sub].role = "admin"
    /\ resp.status = 404
    /\ students["s2"] = EnrolledStudents["s2"]

\* C19: a login attempt against an identity whose lockout-until is in the
\* future fails with AccountLocked whatever password is supplied; the lock
\* decides before the password is compared.
C19_LockDecidesFirst ==
    [][\A e \in LoginEmails, p \in Passwords :
          (Login(e, p) /\ \E id \in QueryUserByEmail(e) : is_locked(users[id], now))
          => AccountLocked(resp')]_vars

\* C20: a login attempt with a wrong password on an existing identity raises
\* its failed-login counter by exactly one although the login fails, and sets
\* lockout-until to now + 30 minutes when the counter has reached 5; an identity
\* with a lockout-until has a counter of at least 5, and one with fewer than 5
\* failures is never locked.
C20_CounterAndLock ==
    [][/\ \A e \in LoginEmails, p \in Passwords :
             (Login(e, p) /\ authenticate_user(e, p) = {})
             => \A id \in QueryUserByEmail(e) :
                   /\ users'[id].failed_login_attempts
                          = users[id].failed_login_attempts + 1
                   /\ users'[id].account_locked_until =
                          IF users'[id].failed_login_attempts >= 5
                          THEN {now + Minutes(30)}
                          ELSE users[id].account_locked_until
                   /\ resp'.status # 200
       /\ \A id \in DOMAIN users' :
             /\ users'[id].account_locked_until # {}
                   => users'[id].failed_login_attempts >= 5
             /\ users'[id].failed_login_attempts < 5 => ~is_locked(users'[id], now')]_vars

\* C20 witness: the fifth wrong password in a row was refused and locked the
\* identity for 30 minutes from now.
C20_Witness ==
    /\ resp.op = "login"
    /\ WrongPassword
    /\ InvalidCredentials(resp)
    /\ \E id \in QueryUserByEmail(resp.req.email) :
          /\ users[id].failed_login_attempts = 5
          /\ users[id].account_locked_until = {now + Minutes(30)}

\* C21: after a successful login the identity's failed-login counter is 0, its
\* lockout-until is cleared and its last-login is the time of that login, all
\* stored by the time the response exists; the response carries an access
\* token, a refresh token and a projection of the identity without the
\* password hash.
C21_SuccessfulLogin ==
    (resp.op = "login" /\ resp.status = 200) =>
        /\ resp.body # {}
        /\ \A b \in resp.body :
              /\ b.user.id \in DOMAIN users
              /\ users[b.user.id].email = resp.req.email
              /\ users[b.user.id].failed_login_attempts = 0
              /\ users[b.user.id].account_locked_until = {}
              /\ users[b.user.id].last_login = {resp.at}
              /\ verify_token(b.access_token, now) # {}
              /\ \A c \in verify_token(b.access_token, now) : c.sub = b.user.id
              /\ verify_token(b.refresh_token, now) # {}
              /\ \A c \in verify_token(b.refresh_token, now) :
                    c.sub = b.user.id /\ c.type = "refresh"
              /\ DOMAIN b = {"access_token", "refresh_token", "token_type", "user"}
              /\ "hashed_password" \notin DOMAIN b.user

\* C21 witness: a login succeeded at a time by which a lockout had run out, and
\* the identity is stored with no failures, no lockout-until and this login as
\* its last.
C21_Witness ==
    /\ resp.op = "login"
    /\ resp.status = 200
    /\ resp.at >= Minutes(LOCK_MINUTES)
    /\ \E b \in resp.body :
          /\ users[b.user.id].failed_login_attempts = 0
          /\ users[b.user.id].account_locked_until = {}
          /\ users[b.user.id].last_login = {resp.at}

\* the identity a verified token names, if the store has it
TokenUser(token) ==
    {c.sub : c \in {v \in verify_token(token, now) : Get(v, "sub") \in DOMAIN users}}

\* C22: tenant resolution is skipped only for super admins: a request of a super
\* admin passes the pipeline without a tenant, and a request of an identity of
\* another role is dispatched only after its tenant was resolved; an identity
\* of another role with no tenant or with a tenant that does not exist is
\* rejected.
C22_TenantSkippedOnlyForSuperAdmin ==
    resp.op = "request" =>
        \A id \in TokenUser(resp.req.token) :
            IF users[id].role = "super_admin"
            THEN resp.status = 200 /\ \A b \in resp.body : b.tenant = {}
            ELSE IF users[id].tenant_id \in DOMAIN tenants
            THEN resp.status = 200
                    => \A b \in resp.body : b.tenant = {users[id].tenant_id}
            ELSE resp.status # 200

\* C23: every token failure is the same generic 401: on a protected route and
\* on refresh a bad signature, a malformed payload, an expired token, a wrong
\* token kind and a subject that no longer exists get the same status and the
\* same message, so the response does not tell which check failed.
C23_GenericTokenFailure ==
    /\ (resp.op = "request" /\ resp.status # 200)
          => resp.status = 401 /\ resp.detail = "Could not validate credentials"
    /\ (resp.op = "refresh" /\ resp.status # 200)
          => resp.status = 401 /\ resp.detail = "Invalid refresh token"

\* C24: register with an email that already belongs to an identity is rejected
\* with the 400 error 'Email already registered', creates no identity and
\* leaves the existing identities unchanged, so no two identities share an
\* email; a successful register creates exactly one identity, with status
\* pending.
C24_DuplicateRegistration ==
    [][/\ \A i, j \in DOMAIN users' : users'[i].email = users'[j].email => i = j
       /\ (resp'.op = "register" /\ <<users, resp>>' # <<users, resp>>)
             => IF QueryUserByEmail(resp'.req.email) # {}
                THEN /\ users' = users
                     /\ resp'.status = 400
                     /\ resp'.detail = "Email already registered"
                ELSE /\ resp'.status = 200
                     /\ \E id \in DOMAIN users' \ DOMAIN users :
                           /\ DOMAIN users' = DOMAIN users \cup {id}
                           /\ users'[id].email = resp'.req.email
                           /\ users'[id].status = "pending"
                           /\ resp'.body = {[user_id |-> id]}
                     /\ \A i \in DOMAIN users : users'[i] = users[i]]_vars

\* C25: login returns tokens only for an identity whose status is active at
\* the time of the attempt: a pending, inactive or suspended identity is
\* rejected with 401 even with the right password; and only verify-email
\* moves an identity from pending to active.
C25_OnlyActiveLogsIn ==
    [][/\ (resp'.op = "login" /\ <<users, resp>>' # <<users, resp>>)
             => \A id \in QueryUserByEmail(resp'.req.email) :
                   /\ users[id].status # "active"
                         => resp'.status = 401 /\ resp'.body = {}
                   /\ resp'.status = 200 => users[id].status = "active"
       /\ \A id \in DOMAIN users \cap DOMAIN users' :
             (users[id].status = "pending" /\ users'[id].status = "active")
             => /\ resp'.op = "verify_email"
                /\ resp'.status = 200
                /\ users[id].email_verification_token = resp'.req.token]_vars

\* C25 witness: a registered identity that has not verified its email gave its
\* right password and was refused with 401.
C25_Witness ==
    /\ resp.op = "login"
    /\ resp.status = 401
    /\ resp.body = {}
    /\ \E id \in authenticate_user(resp.req.email, resp.req.password) :
          id \in RegisterIds /\ users[id].status = "pending"

\* C26: every rejected login attempt for the email of an existing identity
\* raises its failed-login counter by one, whatever the reason of the rejection
\* (wrong password, locked or not active, tenant inaccessible) and also with
\* the right password; so each attempt made while the identity is locked moves
\* lockout-until to 30 minutes after that attempt.
C26_EveryRejectionCounts ==
    [][(resp'.op = "login" /\ resp'.status # 200)
          => \A id \in QueryUserByEmail(resp'.req.email) :
                /\ users'[id].failed_login_attempts
                       = users[id].failed_login_attempts + 1
                /\ is_locked(users[id], now)
                      => users'[id].account_locked_until = {now + Minutes(30)}
                /\ \A f \in DOMAIN users[id] \ {"failed_login_attempts",
                                                  "account_locked_until"} :
                      users'[id][f] = users[id][f]]_vars

\* C26 witness: an identity gave its right password while locked, some time
\* after the lock was set; it was refused, counted, and locked for 30 minutes
\* from this attempt.
C26_Witness ==
    /\ resp.op = "login"
    /\ AccountLocked(resp)
    /\ now > 0
    /\ \E id \in authenticate_user(resp.req.email, resp.req.password) :
          /\ users[id].status = "active"
          /\ users[id].failed_login_attempts > LOCK_THRESHOLD
          /\ users[id].account_locked_until = {now + Minutes(LOCK_MINUTES)}

\* C27: the failed-login counter is reset only by a successful login, never by
\* the lock running out: once lockout-until has passed without a successful
\* login the counter is still at least 5, and one more wrong password locks
\* the identity again for 30 minutes.
C27_LockExpiryKeepsCounter ==
    [][/\ \A id \in DOMAIN users \cap DOMAIN users' :
             users'[id].failed_login_attempts < users[id].failed_login_attempts
             => /\ resp'.op = "login"
                /\ resp'.status = 200
                /\ id \in QueryUserByEmail(resp'.req.email)
                /\ users'[id].failed_login_attempts = 0
       /\ \A id \in DOMAIN users :
             (users[id].account_locked_until # {} /\ ~is_locked(users[id], now))
             => /\ users[id].failed_login_attempts >= 5
                /\ (resp'.op = "login" /\ InvalidCredentials(resp')
                       /\ id \in QueryUserByEmail(resp'.req.email))
                      => /\ is_locked(users'[id], now)
                         /\ users'[id].account_locked_until = {now + Minutes(30)}]_vars

\* C27 witness: half an hour or more after the service started, a wrong
\* password was counted as the sixth failure and locked the identity for 30
\* minutes from now.
C27_Witness ==
    /\ resp.op = "login"
    /\ WrongPassword
    /\ InvalidCredentials(resp)
    /\ now >= Minutes(LOCK_MINUTES)
    /\ \E id \in QueryUserByEmail(resp.req.email) :
          /\ users[id].failed_login_attempts = LOCK_THRESHOLD + 1
          /\ users[id].account_locked_until = {now + Minutes(LOCK_MINUTES)}

\* a token this service signed, not yet expired, that names an identity that
\* exists
LiveToken(k) ==
    /\ k.wf
    /\ k.sig = Sign(k.claims, SECRET_KEY)
    /\ k.claims.exp >= timegm(now)
    /\ k.claims.sub \in DOMAIN users

\* C28: a protected route does not check the token kind: every validly signed,
\* unexpired token whose subject is an existing identity authenticates the
\* request, a refresh token presented as bearer included, whatever the status
\* of the identity (pending, inactive, suspended) and whether or not it is
\* locked.
C28_BearerAnyKind ==
    resp.op = "request" =>
        LET k == resp.req.token
        IN  /\ LiveToken(k)
                  => /\ resp.status = 200
                     /\ \A b \in resp.body : b.user = {k.claims.sub}
            /\ (LiveToken(k) /\ Get(k.claims, "type") = "refresh") => resp.status = 200
            /\ \A st \in UserStatus :
                  (LiveToken(k) /\ users[k.claims.sub].status = st) => resp.status = 200
            /\ (LiveToken(k) /\ is_locked(users[k.claims.sub], now)) => resp.status = 200

\* C28 witness: a refresh token presented as bearer credential by a
\* soft-deleted, locked-out identity was accepted.
C28_Witness ==
    /\ resp.op = "request"
    /\ resp.status = 200
    /\ resp.req.token \in {h.refresh_token : h \in held}
    /\ \E id \in TokenUser(resp.req.token) :
          /\ users[id].status = "inactive"
          /\ is_locked(users[id], now)

\* C29: refresh re-checks only that the identity exists: a valid refresh token
\* yields a new access and refresh token even when the identity is inactive,
\* suspended or locked, when its tenant cannot access the system, and after
\* logout, so a session goes on past the life of its access token, until the
\* refresh token itself expires.
C29_RefreshChecksExistenceOnly ==
    /\ resp.op = "refresh" =>
          LET k == resp.req.refresh_token
          IN  /\ GoodRefreshToken(k)
                    => /\ resp.status = 200
                       /\ resp.body # {}
                       /\ \A b \in resp.body :
                             /\ b.user.id = k.claims.sub
                             /\ LiveToken(b.access_token)
                             /\ GoodRefreshToken(b.refresh_token)
                             /\ b.access_token.claims.exp
                                   = timegm(now + Minutes(ACCESS_TOKEN_EXPIRE_MINUTES))
              /\ (GoodRefreshToken(k) /\ ~can_login(users[k.claims.sub], now))
                    => resp.status = 200
              /\ (GoodRefreshToken(k)
                     /\ users[k.claims.sub].tenant_id \in DOMAIN tenants
                     /\ ~can_access_system(tenants[users[k.claims.sub].tenant_id], now))
                    => resp.status = 200
              /\ (GoodRefreshToken(k) /\ prev.op = "logout" /\ prev.status = 200)
                    => resp.status = 200
              /\ (k.wf /\ k.sig = Sign(k.claims, SECRET_KEY)
                     /\ k.claims.exp < timegm(now))
                    => resp.status = 401
    /\ \A h \in held : h.refresh_token.claims.exp > h.access_token.claims.exp

\* C29 witness: after the access token of the login has expired, an identity
\* that logged out, was soft-deleted and is locked out, of a school that is
\* suspended, got a new token pair for its refresh token.
C29_Witness ==
    /\ resp.op = "refresh"
    /\ resp.status = 200
    /\ resp.req.refresh_token \in {h.refresh_token : h \in held}
    /\ \A h \in held : h.access_token.claims.exp < timegm(now)
    /\ prev.op = "logout"
    /\ prev.status = 200
    /\ TokenUser(prev.req.token) = TokenUser(resp.req.refresh_token)
    /\ \E id \in TokenUser(resp.req.refresh_token) :
          /\ users[id].status = "inactive"
          /\ is_locked(users[id], now)
          /\ users[id].tenant_id \in DOMAIN tenants
          /\ tenants[users[id].tenant_id].subscription_status = "suspended"

\* C30: the role check uses the role stored on the identity at the time of
\* the request, not the role claim of the token: after the role of an identity
\* was changed in the store, a token issued before is authorized by the new
\* role on the next request; a token whose identity no longer exists is
\* rejected.
C30_StoredRoleDecides ==
    resp.op = "require_roles" =>
        LET k == resp.req.token
            R == resp.req.required_roles
        IN  /\ LiveToken(k)
                  => /\ users[k.claims.sub].role \in R
                           => /\ resp.status = 200
                              /\ \A b \in resp.body :
                                    /\ b.user.id = k.claims.sub
                                    /\ b.user.role = users[k.claims.sub].role
                     /\ users[k.claims.sub].role \notin R
                           => Forbidden(resp) /\ resp.body = {}
            /\ k.claims.sub \notin DOMAIN users
                  => resp.status = 401 /\ resp.body = {}

\* C30 witness: a token issued with a role the route admits was refused
\* because the identity's stored role is by now one the route does not admit.
C30_Witness ==
    /\ resp.op = "require_roles"
    /\ Forbidden(resp)
    /\ LiveToken(resp.req.token)
    /\ Get(resp.req.token.claims, "role") \in resp.req.required_roles
    /\ users[resp.req.token.claims.sub].role \notin resp.req.required_roles

====
